---- MODULE Spec2Model ----
(***************************************************************************)
(* The inline-completion provider (AICompletionProvider) and the          *)
(* completion client (getCompletion) as a state machine.                  *)
(*                                                                         *)
(* Text is a sequence of one-character strings.  JavaScript runs each      *)
(* handler to its next await, so one action is the code between two        *)
(* awaits of provideInlineCompletionItems.                                 *)
(***************************************************************************)
EXTENDS Integers, Sequences, FiniteSets, TLC

VARIABLES
    lastTriggerTime,     \* AICompletionProvider.lastTriggerTime
    lastInput,           \* AICompletionProvider.lastInput (null: set = FALSE)
    lastCompletionText,  \* AICompletionProvider.lastCompletionText (null: set = FALSE)
    lastCompetionList,   \* AICompletionProvider.lastCompetionList (undefined: defined = FALSE)
    document,            \* the host's TextDocument: a sequence of lines
    now,                 \* Date.now()
    calls,               \* the invocations of provideInlineCompletionItems, in start order;
                         \* token: the host has raised the cancellation signal of an
                         \* invocation that is in flight
    lastBackend,         \* what the most recently completed backend call returned
    lastEligible,        \* the latest invocation that only the rate limit could deny:
                         \* its fingerprint and when it started
    lastHost,            \* what the host passed with the latest invocation
    fnArg,               \* the argument a function of the code is applied to, and
    fnRet                \* what it returned (the specifications of single functions)

vars == <<lastTriggerTime, lastInput, lastCompletionText, lastCompetionList,
          document, now, calls, lastBackend, lastEligible, lastHost, fnArg, fnRet>>

session == <<lastTriggerTime, lastInput, lastCompletionText, lastCompetionList>>

----------------------------------------------------------------------------
(* Bounds of the model *)

MaxCalls == 2
MaxClock == 2
MaxLines == 5            \* lines of a document given to the functions of the provider
MaxPieces == 4           \* pieces a response text given to the extraction is made of
MaxChunks == 3           \* chunks of a stream consumed step by step

(* Program constants *)

TRIGGER_DELAY == 1000
ContextLines == 3

----------------------------------------------------------------------------
(* Strings *)

Min(a, b) == IF a < b THEN a ELSE b
Max(a, b) == IF a > b THEN a ELSE b

IsSpace(c) == c \in {" ", "\t", "\n"}

RECURSIVE TrimStart(_)
TrimStart(s) ==
    IF s # <<>> /\ IsSpace(Head(s)) THEN TrimStart(Tail(s)) ELSE s

RECURSIVE TrimEnd(_)
TrimEnd(s) ==
    IF s # <<>> /\ IsSpace(s[Len(s)]) THEN TrimEnd(SubSeq(s, 1, Len(s) - 1)) ELSE s

\* String.prototype.trim
Trim(s) == TrimEnd(TrimStart(s))

\* String.prototype.substring(a, b): both ends clamped to [0, length], swapped if a > b
Substring(s, a, b) ==
    LET ca == Min(Max(a, 0), Len(s))
        cb == Min(Max(b, 0), Len(s))
    IN  SubSeq(s, Min(ca, cb) + 1, Max(ca, cb))

\* pat occurs in s at the 0-based index i
OccursAt(s, pat, i) ==
    /\ i >= 0
    /\ i + Len(pat) <= Len(s)
    /\ SubSeq(s, i + 1, i + Len(pat)) = pat

\* String.prototype.indexOf(pat, from): -1 when there is none
IndexOf(s, pat, from) ==
    LET hits == {i \in Max(from, 0)..Len(s) : OccursAt(s, pat, i)}
    IN  IF hits = {} THEN -1 ELSE CHOOSE i \in hits : \A j \in hits : i <= j

\* String.prototype.lastIndexOf(pat): -1 when there is none
LastIndexOf(s, pat) ==
    LET hits == {i \in 0..Len(s) : OccursAt(s, pat, i)}
    IN  IF hits = {} THEN -1 ELSE CHOOSE i \in hits : \A j \in hits : i >= j

----------------------------------------------------------------------------
(* The host's document *)

Pos(l, c) == [line |-> l, character |-> c]

\* TextDocument.lineAt(line).text
lineAt(doc, l) == doc[l + 1]

RECURSIVE JoinLines(_, _, _)
\* the lines first..last of doc, each followed by its line break
JoinLines(doc, first, last) ==
    IF first > last THEN <<>>
    ELSE lineAt(doc, first) \o <<"\n">> \o JoinLines(doc, first + 1, last)

\* TextDocument.getText(new Range(start, end))
getText(doc, start, end) ==
    IF start.line = end.line
    THEN Substring(lineAt(doc, start.line), start.character, end.character)
    ELSE Substring(lineAt(doc, start.line), start.character, Len(lineAt(doc, start.line)))
         \o <<"\n">>
         \o JoinLines(doc, start.line + 1, end.line - 1)
         \o Substring(lineAt(doc, end.line), 0, end.character)

\* the cursor positions the host can report for doc
Positions(doc) ==
    UNION {{Pos(l, c) : c \in 0..Len(lineAt(doc, l))} : l \in 0..(Len(doc) - 1)}

\* the documents the host may show; an edit replaces one by another
Documents ==
    { << <<"a">>, <<" ">> >>,
      << <<"b">>, <<" ">> >> }

----------------------------------------------------------------------------
(* getCompletion (src/api/index.ts) *)

OpenTag == <<"<", "C", "O", "M", "P", "L", "E", "T", "I", "O", "N", ">">>
CloseTag == <<"<", "/", "C", "O", "M", "P", "L", "E", "T", "I", "O", "N", ">">>

\* SplitPrompt with the fault of cutting the whole prompt, not its last line, at
\* the cursor's character
SplitPrompt_WholePrompt(prompt, cursorPosition) ==
    [prefix |-> Substring(prompt, 0, cursorPosition),
     suffix |-> Substring(prompt, cursorPosition, Len(prompt))]

\* prefix and suffix of the hole, from options.prompt and options.cursorPosition
SplitPrompt(prompt, cursorPosition) ==
    LET lastLineBreakIndex == LastIndexOf(prompt, <<"\n">>)
        contextPrefix == Substring(prompt, 0, lastLineBreakIndex + 1)
        lastLine == Substring(prompt, lastLineBreakIndex + 1, Len(prompt))
    IN  [prefix |-> contextPrefix \o Substring(lastLine, 0, cursorPosition),
         suffix |-> Substring(lastLine, cursorPosition, Len(lastLine))]

\* the query block of fullPrompt; the literal parts of the template are kept whole
QueryBlock(prefix, suffix) ==
    <<"<QUERY>", "\n">> \o prefix \o <<"{{FILL_HERE}}">> \o suffix
        \o <<"\n", "</QUERY>">>

TextChunk(t) == [type |-> "text", text |-> t]
UsageChunk == [type |-> "usage", text |-> <<>>]

RECURSIVE Accumulate(_)
\* responseText once the chunks are drained: only the chunks that carry text add to it
Accumulate(chunks) ==
    IF chunks = <<>> THEN <<>>
    ELSE (IF Head(chunks).type = "text" THEN Head(chunks).text ELSE <<>>)
         \o Accumulate(Tail(chunks))

\* the loop body of lines 147-151: a chunk with a text property adds its text
AppendChunk_Prepend(responseText, chunk) ==
    IF chunk.type = "text" THEN chunk.text \o responseText ELSE responseText

AppendChunk(responseText, chunk) ==
    IF chunk.type = "text" THEN responseText \o chunk.text ELSE responseText

\* the indices at which a closing tag ends a match that opened at index i
ClosesAfter(responseText, i) ==
    {j \in (i + Len(OpenTag))..Len(responseText) : OccursAt(responseText, CloseTag, j)}

\* the indices at which /<COMPLETION>([\s\S]*?)<\/COMPLETION>/ matches
MatchesAt(responseText) ==
    {i \in 0..Len(responseText) :
        OccursAt(responseText, OpenTag, i) /\ ClosesAfter(responseText, i) # {}}

\* ExtractCompletion with the fault of a greedy quantifier: ([\s\S]*)
ExtractCompletion_Greedy(responseText) ==
    LET matches == MatchesAt(responseText)
    IN  IF matches = {} THEN <<>>
        ELSE LET i == CHOOSE m \in matches : \A k \in matches : m <= k
                 closes == ClosesAfter(responseText, i)
                 j == CHOOSE c \in closes : \A k \in closes : c >= k
             IN  SubSeq(responseText, i + Len(OpenTag) + 1, j)

\* responseText.match(/<COMPLETION>([\s\S]*?)<\/COMPLETION>/), group 1 or '': the
\* leftmost match, its group as short as can be
ExtractCompletion(responseText) ==
    LET matches == MatchesAt(responseText)
    IN  IF matches = {} THEN <<>>
        ELSE LET i == CHOOSE m \in matches : \A k \in matches : m <= k
                 closes == ClosesAfter(responseText, i)
                 j == CHOOSE c \in closes : \A k \in closes : c <= k
             IN  SubSeq(responseText, i + Len(OpenTag) + 1, j)

\* What the backend does with one request: the handler is built and createMessage
\* is called (they may throw), then the stream delivers its chunks and ends or throws.
Backend(built, chunks, fails) == [built |-> built, chunks |-> chunks, fails |-> fails]

Raised == [raised |-> TRUE, results |-> <<>>]
Returned(results) == [raised |-> FALSE, results |-> results]

\* getCompletion(options) against the backend behaviour b: what it returns, or that
\* it raised.  Building the handler and calling createMessage stand before the try.
getCompletion(b) ==
    IF ~b.built THEN Raised
    ELSE IF b.fails
         THEN Returned(<<[text |-> <<>>, detail |-> "Error generating completion"]>>)
         ELSE Returned(<<[text |-> ExtractCompletion(Accumulate(b.chunks)),
                          detail |-> "AI Completion"]>>)

\* the streams the backend may deliver
Streams ==
    { Backend(TRUE, <<TextChunk(<<"x">> \o OpenTag \o <<"a", " ">>), UsageChunk,
                      TextChunk(CloseTag \o <<"y">>)>>, FALSE),
      Backend(TRUE, <<TextChunk(<<"a">>), UsageChunk>>, FALSE),
      Backend(TRUE, <<TextChunk(OpenTag \o <<"a">>)>>, TRUE) }

----------------------------------------------------------------------------
(* AICompletionProvider (src/services/completion/AICompletionProvider.ts) *)

Null == [set |-> FALSE, line |-> 0, character |-> 0, text |-> <<>>]
NoText == [set |-> FALSE, text |-> <<>>]
Undefined == [defined |-> FALSE, items |-> <<>>]

\* what the host passes with an invocation: token.isCancellationRequested, whether
\* the editor has several selections, whether the selected suggestion no longer
\* starts with the typed text
HostInputs ==
    { [cancelled |-> FALSE, selections |-> 1, stale |-> FALSE],
      [cancelled |-> TRUE,  selections |-> 1, stale |-> FALSE],
      [cancelled |-> FALSE, selections |-> 2, stale |-> FALSE],
      [cancelled |-> FALSE, selections |-> 1, stale |-> TRUE] }

\* PreChecksPass with the fault of leaving out the check of the selections
PreChecksPass_IgnoresSelections(host) ==
    /\ ~host.cancelled
    /\ ~host.stale

PreChecksPass(host) ==
    /\ ~host.cancelled
    /\ ~(host.selections > 1)
    /\ ~host.stale

currentInput(doc, pos) ==
    [set |-> TRUE, line |-> pos.line, character |-> pos.character,
     text |-> Substring(lineAt(doc, pos.line), 0, pos.character)]

SameInput(li, cur) ==
    /\ li.set
    /\ li.line = cur.line
    /\ li.character = cur.character
    /\ li.text = cur.text

\* JavaScript's truthiness of lastCompletionText: null and '' are both falsy
Truthy(lct) == lct.set /\ lct.text # <<>>

SameAsLastCompletion(lct, doc, pos) ==
    /\ Truthy(lct)
    /\ Trim(lineAt(doc, pos.line)) = Trim(lct.text)

isInComment(doc, pos) ==
    LET prefix == Substring(lineAt(doc, pos.line), 0, pos.character)
        text == getText(doc, Pos(0, 0), pos)
    IN  IF IndexOf(prefix, <<"/", "/">>, 0) >= 0 THEN TRUE
        ELSE LastIndexOf(text, <<"/", "*">>) > LastIndexOf(text, <<"*", "/">>)

RECURSIVE ScanQuotes(_, _, _, _)
\* the loop of isInString from the character at index i (1-based); quote "" is null
ScanQuotes(s, i, quote, inString) ==
    IF i > Len(s) THEN inString
    ELSE IF s[i] \in {"\"", "'"} /\ quote = ""
         THEN ScanQuotes(s, i + 1, s[i], TRUE)
         ELSE IF quote # "" /\ s[i] = quote
              THEN ScanQuotes(s, i + 1, quote,
                              IF s[Len(s)] # "\\" THEN ~inString ELSE inString)
              ELSE ScanQuotes(s, i + 1, quote, inString)

isInString(linePrefix) == ScanQuotes(linePrefix, 1, "", FALSE)

RateLimited(ltt, t) == t - ltt < TRIGGER_DELAY

\* HasContext with the fault of allowing inside a comment
HasContext_CommentAllows(doc, pos, linePrefix) ==
    LET prevLines == {Trim(lineAt(doc, i)) :
                        i \in Max(0, pos.line - ContextLines)..(pos.line - 1)}
    IN  IF Trim(linePrefix) = <<>> /\ (\E l \in prevLines : l # <<>>) THEN TRUE
        ELSE IF Trim(linePrefix) # <<>> THEN TRUE
        ELSE IF isInComment(doc, pos) THEN TRUE
        ELSE IF isInString(linePrefix) THEN FALSE
        ELSE FALSE

\* shouldTriggerCompletion once the rate limit is passed
HasContext(doc, pos, linePrefix) ==
    LET prevLines == {Trim(lineAt(doc, i)) :
                        i \in Max(0, pos.line - ContextLines)..(pos.line - 1)}
    IN  IF Trim(linePrefix) = <<>> /\ (\E l \in prevLines : l # <<>>) THEN TRUE
        ELSE IF Trim(linePrefix) # <<>> THEN TRUE
        ELSE IF isInComment(doc, pos) THEN FALSE
        ELSE IF isInString(linePrefix) THEN FALSE
        ELSE FALSE

\* shouldTriggerCompletion with the fault of testing the rate limit only after the
\* context checks have allowed (the order of the provider's earlier variant)
shouldTriggerCompletion_ContextFirst(doc, pos, linePrefix, ltt, t) ==
    IF HasContext(doc, pos, linePrefix) THEN TRUE
    ELSE IF RateLimited(ltt, t) THEN FALSE ELSE FALSE

shouldTriggerCompletion(doc, pos, linePrefix, ltt, t) ==
    IF RateLimited(ltt, t) THEN FALSE ELSE HasContext(doc, pos, linePrefix)

\* shouldTriggerCompletionEarlier with the fault of testing the rate limit first
shouldTriggerCompletionEarlier_RateFirst(doc, pos, linePrefix, ltt, t) ==
    LET prevLines == {Trim(lineAt(doc, i)) :
                        i \in Max(0, pos.line - ContextLines)..(pos.line - 1)}
    IN  IF RateLimited(ltt, t) THEN FALSE
        ELSE IF Trim(linePrefix) = <<>> /\ (\E l \in prevLines : l # <<>>) THEN TRUE
        ELSE IF Trim(linePrefix) # <<>> THEN TRUE
        ELSE IF isInComment(doc, pos) THEN FALSE
        ELSE IF isInString(linePrefix) THEN FALSE
        ELSE FALSE

\* shouldTriggerCompletion of the earlier variant of the provider (unnamed/part_000)
shouldTriggerCompletionEarlier(doc, pos, linePrefix, ltt, t) ==
    LET prevLines == {Trim(lineAt(doc, i)) :
                        i \in Max(0, pos.line - ContextLines)..(pos.line - 1)}
    IN  IF Trim(linePrefix) = <<>> /\ (\E l \in prevLines : l # <<>>) THEN TRUE
        ELSE IF Trim(linePrefix) # <<>> THEN TRUE
        ELSE IF RateLimited(ltt, t) THEN FALSE
        ELSE IF isInComment(doc, pos) THEN FALSE
        ELSE IF isInString(linePrefix) THEN FALSE
        ELSE FALSE

\* getContextRange with the fault of a window one line short
getContextRange_Short(doc, pos) ==
    [start |-> Pos(Max(0, pos.line - (ContextLines - 1)), 0), end |-> pos]

getContextRange(doc, pos) ==
    [start |-> Pos(Max(0, pos.line - ContextLines), 0), end |-> pos]

\* the prompt the provider hands to getCompletion: the text of the context range
contextText(doc, pos) ==
    LET contextRange == getContextRange(doc, pos)
    IN  getText(doc, contextRange.start, contextRange.end)

\* The way an invocation takes through provideInlineCompletionItems up to its first
\* await: where it returns, or "allow" when it goes on to the backend.
GatePath(host, visible, doc, pos, li, lct, ltt, t) ==
    LET cur == currentInput(doc, pos)
    IN  IF ~PreChecksPass(host) THEN "preCheck"
        ELSE IF SameInput(li, cur) THEN "sameInput"
        ELSE IF SameAsLastCompletion(lct, doc, pos) THEN "sameLine"
        ELSE IF ~shouldTriggerCompletion(doc, pos, cur.text, ltt, t)
             THEN (IF RateLimited(ltt, t) THEN "rateLimit" ELSE "noContext")
        ELSE IF ~visible THEN "noProvider"
        ELSE "allow"

\* GateLastInput with the fault of writing lastInput only once
\* shouldTriggerCompletion has allowed
GateLastInput_AfterTrigger(path, li, cur) ==
    IF path \in {"noProvider", "allow"} THEN cur ELSE li

\* lastInput after the gate: written once the duplicate-input check has passed
GateLastInput(path, li, cur) ==
    IF path \in {"preCheck", "sameInput"} THEN li ELSE cur

\* what a gate that does not go on to the backend returns
GateResult(path, list) ==
    IF path \in {"sameInput", "sameLine"} THEN list ELSE Undefined

\* the item list built from the completions, each item's range the empty range at pos
ItemList(completions, pos) ==
    [defined |-> TRUE,
     items |-> [i \in 1..Len(completions) |->
                  [insertText |-> completions[i].text,
                   range |-> [start |-> pos, end |-> pos]]]]

\* The fields after getCompletion has returned `completions` to the invocation at pos
\* TriggerTimeAfter with the fault of stamping the time before the completions are
\* looked at
TriggerTimeAfter_Stamped(ltt, completions, t) == t

TriggerTimeAfter(ltt, completions, t) ==
    IF Len(completions) = 0 THEN ltt ELSE t

\* CompletionTextAfter with the fault of keeping the text of the first completion
CompletionTextAfter_First(lct, completions) ==
    IF Len(completions) = 0 THEN lct
    ELSE [set |-> TRUE, text |-> completions[1].text]

CompletionTextAfter(lct, completions) ==
    IF Len(completions) = 0 THEN lct
    ELSE [set |-> TRUE, text |-> completions[Len(completions)].text]

\* CompletionListAfter with the fault of clearing the cached list when there are no
\* completions
CompletionListAfter_Cleared(list, completions, pos) ==
    IF Len(completions) = 0 THEN Undefined ELSE ItemList(completions, pos)

CompletionListAfter(list, completions, pos) ==
    IF Len(completions) = 0 THEN list ELSE ItemList(completions, pos)

\* what the invocation returns once getCompletion has returned `completions`
ResultAfter(completions, pos) ==
    IF Len(completions) = 0 THEN Undefined ELSE ItemList(completions, pos)

----------------------------------------------------------------------------
(* The state machine *)

NoBackend == [completed |-> FALSE, failed |-> FALSE, results |-> <<>>]

\* no function is being applied on its own
Idle == [fn |-> "none"]

Init ==
    /\ lastTriggerTime = 0
    /\ lastInput = Null
    /\ lastCompletionText = NoText
    /\ lastCompetionList = Undefined
    /\ document \in Documents
    /\ now = TRIGGER_DELAY
    /\ calls = <<>>
    /\ lastBackend = NoBackend
    /\ lastEligible = [input |-> Null, start |-> 0]
    /\ lastHost = [cancelled |-> FALSE, selections |-> 1, stale |-> FALSE]
    /\ fnArg = Idle
    /\ fnRet = Idle

InFlight(i) == i \in 1..Len(calls) /\ calls[i].pc # "done"

CallPos(c) == Pos(c.line, c.character)

\* Return with the fault of sending an invocation whose backend call failed back to
\* where it asks for the provider's state, to try again
Return_Retry(i, result, backend) ==
    IF backend = "failed"
    THEN [calls EXCEPT ![i].pc = "getState", ![i].backend = backend]
    ELSE [calls EXCEPT ![i].pc = "done", ![i].result = result, ![i].backend = backend,
                       ![i].token = FALSE]

\* Return with the fault of recording the outcome without returning to the host
Return_Pending(i, result, backend) ==
    [calls EXCEPT ![i].result = result, ![i].backend = backend]

\* the invocation i has returned `result`; its token is of no use to the host any more
Return(i, result, backend) ==
    [calls EXCEPT ![i].pc = "done", ![i].result = result, ![i].backend = backend,
                  ![i].token = FALSE]

\* the invocation passed every check of the gate but, possibly, the rate limit
Eligible(path, doc, pos) ==
    /\ path \in {"rateLimit", "allow"}
    /\ HasContext(doc, pos, currentInput(doc, pos).text)

\* The host invokes provideInlineCompletionItems: the code up to `await provider.getState()`
provideInlineCompletionItems ==
    /\ Len(calls) < MaxCalls
    /\ \E pos \in Positions(document), host \in HostInputs, visible \in BOOLEAN :
         LET cur == currentInput(document, pos)
             path == GatePath(host, visible, document, pos, lastInput,
                              lastCompletionText, lastTriggerTime, now)
         IN  /\ calls' = Append(calls,
                   [line |-> pos.line, character |-> pos.character, text |-> cur.text,
                    token |-> FALSE, path |-> path,
                    pc |-> IF path = "allow" THEN "getState" ELSE "done",
                    result |-> GateResult(path, lastCompetionList),
                    backend |-> "none"])
             /\ lastInput' = GateLastInput(path, lastInput, cur)
             /\ lastEligible' = IF Eligible(path, document, pos)
                                THEN [input |-> cur, start |-> now]
                                ELSE lastEligible
             /\ lastHost' = host
    /\ UNCHANGED <<lastTriggerTime, lastCompletionText, lastCompetionList,
                   document, now, lastBackend, fnArg, fnRet>>

\* provider.getState() settles; on success getCompletion is called and runs up to
\* its `for await`: it builds the handler and calls createMessage
ResumeGetState(i) ==
    /\ InFlight(i)
    /\ calls[i].pc = "getState"
    /\ \E stateOk \in BOOLEAN, built \in BOOLEAN :
         calls' = IF ~stateOk THEN Return(i, Undefined, "none")
                  ELSE IF getCompletion(Backend(built, <<>>, FALSE)).raised
                       THEN Return(i, Undefined, "raised")
                       ELSE [calls EXCEPT ![i].pc = "getCompletion",
                                          ![i].backend = "issued"]
    /\ UNCHANGED <<session, document, now, lastBackend, lastEligible, lastHost, fnArg, fnRet>>

\* getCompletion has returned ret to the invocation i: lines 98-125 of the provider
Complete(i, ret, failed) ==
    LET pos == CallPos(calls[i])
    IN  /\ lastTriggerTime' = TriggerTimeAfter(lastTriggerTime, ret.results, now)
        /\ lastCompletionText' = CompletionTextAfter(lastCompletionText, ret.results)
        /\ lastCompetionList' = CompletionListAfter(lastCompetionList, ret.results, pos)
        /\ calls' = Return(i, ResultAfter(ret.results, pos),
                           IF failed THEN "failed" ELSE "returned")
        /\ lastBackend' = [completed |-> TRUE, failed |-> failed, results |-> ret.results]
        /\ UNCHANGED <<lastInput, document, now, lastEligible, lastHost, fnArg, fnRet>>

\* the backend's stream ends or throws, getCompletion returns and the invocation resumes
ResumeGetCompletion(i) ==
    /\ InFlight(i)
    /\ calls[i].pc = "getCompletion"
    /\ \E b \in Streams : Complete(i, getCompletion(b), b.fails)

Result(t) == [text |-> t, detail |-> "AI Completion"]

\* the result sequences of a stubbed client: none, one, several
StubResults ==
    { <<>>,
      <<Result(<<"a", " ">>)>>,
      <<Result(<<>>), Result(<<"b">>)>> }

\* the provider run against a stubbed completion client: the client returns any
\* CompletionResult[]
ResumeStubbed(i) ==
    /\ InFlight(i)
    /\ calls[i].pc = "getCompletion"
    /\ \E r \in StubResults : Complete(i, Returned(r), FALSE)

\* the host raises the cancellation signal of an invocation that has not returned
Cancel(i) ==
    /\ InFlight(i)
    /\ ~calls[i].token
    /\ calls' = [calls EXCEPT ![i].token = TRUE]
    /\ UNCHANGED <<session, document, now, lastBackend, lastEligible, lastHost, fnArg, fnRet>>

\* time passes
Tick ==
    /\ now + TRIGGER_DELAY \div 2 <= TRIGGER_DELAY + MaxClock * (TRIGGER_DELAY \div 2)
    /\ now' = now + TRIGGER_DELAY \div 2
    /\ UNCHANGED <<session, document, calls, lastBackend, lastEligible, lastHost, fnArg, fnRet>>

\* the user edits the document
EditDocument ==
    /\ \E d \in Documents \ {document} : document' = d
    /\ UNCHANGED <<session, now, calls, lastBackend, lastEligible, lastHost, fnArg, fnRet>>

Next ==
    \/ provideInlineCompletionItems
    \/ \E i \in 1..MaxCalls : ResumeGetState(i)
    \/ \E i \in 1..MaxCalls : ResumeGetCompletion(i)
    \/ \E i \in 1..MaxCalls : Cancel(i)
    \/ Tick
    \/ EditDocument

Spec == Init /\ [][Next]_vars

\* A suspended invocation is resumed: the promise of getState resolves, and the
\* stream of the backend ends or throws, so that getCompletion's promise resolves.
Resumption ==
    \A i \in 1..MaxCalls :
        WF_vars(ResumeGetState(i)) /\ WF_vars(ResumeGetCompletion(i))

\* what bears on whether an invocation returns: the invocations, their resumptions
\* and the cancellations.  The document is left as it is and the clock stands: a
\* suspended invocation reads neither again, and the gate goes both ways without
\* them, the rate limit denying once a response has come.
NextLive ==
    \/ provideInlineCompletionItems
    \/ \E i \in 1..MaxCalls : ResumeGetState(i)
    \/ \E i \in 1..MaxCalls : ResumeGetCompletion(i)
    \/ \E i \in 1..MaxCalls : Cancel(i)

SpecLive == Init /\ [][NextLive]_vars /\ Resumption

\* the provider against a stubbed completion client, the document left as it is
NextStubbed ==
    \/ provideInlineCompletionItems
    \/ \E i \in 1..MaxCalls : ResumeGetState(i)
    \/ \E i \in 1..MaxCalls : ResumeStubbed(i)
    \/ \E i \in 1..MaxCalls : Cancel(i)
    \/ Tick

SpecStubbed == Init /\ [][NextStubbed]_vars

----------------------------------------------------------------------------
(* The provider after a first round trip: an invocation at WarmPos has gone to the
   backend and has returned a batch; the host starts further invocations *)

WarmPos == Pos(0, 1)
WarmResults == <<Result(<<"a", " ">>)>>

InitWarm ==
    /\ document \in Documents
    /\ now = TRIGGER_DELAY
    /\ lastTriggerTime = TriggerTimeAfter(0, WarmResults, TRIGGER_DELAY)
    /\ lastInput = GateLastInput("allow", Null, currentInput(document, WarmPos))
    /\ lastCompletionText = CompletionTextAfter(NoText, WarmResults)
    /\ lastCompetionList = CompletionListAfter(Undefined, WarmResults, WarmPos)
    /\ calls = <<>>
    /\ lastBackend = [completed |-> TRUE, failed |-> FALSE, results |-> WarmResults]
    /\ lastEligible = [input |-> currentInput(document, WarmPos), start |-> TRIGGER_DELAY]
    /\ lastHost = [cancelled |-> FALSE, selections |-> 1, stale |-> FALSE]
    /\ fnArg = Idle
    /\ fnRet = Idle

SpecWarm == InitWarm /\ [][NextStubbed]_vars

----------------------------------------------------------------------------
(* The functions of the provider that read the document, each applied on its own *)

\* the provider as constructed, no invocation under way
Constructed ==
    /\ lastTriggerTime = 0
    /\ lastInput = Null
    /\ lastCompletionText = NoText
    /\ lastCompetionList = Undefined
    /\ calls = <<>>
    /\ lastBackend = NoBackend
    /\ lastEligible = [input |-> Null, start |-> 0]
    /\ lastHost = [cancelled |-> FALSE, selections |-> 1, stale |-> FALSE]

provider == <<session, document, now, calls, lastBackend, lastEligible, lastHost>>

\* the lines a document is made of: empty, blank, code, the opening of a comment
Lines == { <<>>, <<" ">>, <<"a">>, <<"/", "*">> }

\* the documents of up to MaxLines lines
ContextDocuments == UNION {[1..n -> Lines] : n \in 1..MaxLines}

ArgPos == Pos(fnArg.line, fnArg.character)

InitDocument ==
    /\ Constructed
    /\ document \in ContextDocuments
    /\ now \in {TRIGGER_DELAY \div 2, TRIGGER_DELAY}
    /\ \E pos \in Positions(document) :
          fnArg = [fn |-> "position", line |-> pos.line, character |-> pos.character]
    /\ fnRet = Idle

\* shouldTriggerCompletion(document, position, linePrefix)
CallShouldTriggerCompletion ==
    /\ fnRet = Idle
    /\ fnRet' = [fn |-> "shouldTriggerCompletion",
                 value |-> shouldTriggerCompletion(document, ArgPos,
                               currentInput(document, ArgPos).text,
                               lastTriggerTime, now)]
    /\ UNCHANGED <<provider, fnArg>>

\* getContextRange(document, position) and document.getText of it
CallGetContextRange ==
    /\ fnRet = Idle
    /\ fnRet' = [fn |-> "getContextRange",
                 range |-> getContextRange(document, ArgPos),
                 text |-> contextText(document, ArgPos)]
    /\ UNCHANGED <<provider, fnArg>>

\* getCompletion({prompt: contextText, cursorPosition: position.character}) up to
\* fullPrompt
CallGetCompletion ==
    /\ fnRet = Idle
    /\ LET split == SplitPrompt(contextText(document, ArgPos), ArgPos.character)
       IN  fnRet' = [fn |-> "getCompletion",
                     prefix |-> split.prefix,
                     suffix |-> split.suffix,
                     query |-> QueryBlock(split.prefix, split.suffix)]
    /\ UNCHANGED <<provider, fnArg>>

\* shouldTriggerCompletion(document, position, linePrefix) of the earlier variant
CallShouldTriggerCompletionEarlier ==
    /\ fnRet = Idle
    /\ fnRet' = [fn |-> "shouldTriggerCompletionEarlier",
                 value |-> shouldTriggerCompletionEarlier(document, ArgPos,
                               currentInput(document, ArgPos).text,
                               lastTriggerTime, now)]
    /\ UNCHANGED <<provider, fnArg>>

NextDocument ==
    \/ CallShouldTriggerCompletion
    \/ CallShouldTriggerCompletionEarlier
    \/ CallGetContextRange
    \/ CallGetCompletion

SpecDocument == InitDocument /\ [][NextDocument]_vars

----------------------------------------------------------------------------
(* getCompletion's extraction, applied on its own to a response text *)

RECURSIVE Flatten(_)
Flatten(pieces) ==
    IF pieces = <<>> THEN <<>> ELSE Head(pieces) \o Flatten(Tail(pieces))

\* what a response text is made of: the tags, text, the beginning of a tag
Pieces == { OpenTag, CloseTag, <<"a">>, <<"<">> }

ResponseTexts == {Flatten(ps) : ps \in UNION {[1..n -> Pieces] : n \in 0..MaxPieces}}

InitExtract ==
    /\ Constructed
    /\ document \in {<<<<>>>>}
    /\ now = TRIGGER_DELAY
    /\ \E t \in ResponseTexts : fnArg = [fn |-> "responseText", text |-> t]
    /\ fnRet = Idle

\* lines 155-161: the match, the extracted text, the result
CallExtract ==
    /\ fnRet = Idle
    /\ fnRet' = [fn |-> "match",
                 results |-> <<[text |-> ExtractCompletion(fnArg.text),
                                detail |-> "AI Completion"]>>]
    /\ UNCHANGED <<provider, fnArg>>

NextExtract == CallExtract

SpecExtract == InitExtract /\ [][NextExtract]_vars

----------------------------------------------------------------------------
(* getCompletion's loop over the stream, chunk by chunk *)

\* the chunks a stream delivers
StreamChunks ==
    { TextChunk(OpenTag \o <<"a">>), TextChunk(<<" ">> \o CloseTag),
      TextChunk(<<"b">>), UsageChunk }

Draining(n, responseText) ==
    [fn |-> "stream", consumed |-> n, responseText |-> responseText,
     returned |-> FALSE, results |-> <<>>]

InitStream ==
    /\ Constructed
    /\ document \in {<<<<>>>>}
    /\ now = TRIGGER_DELAY
    /\ \E chunks \in UNION {[1..n -> StreamChunks] : n \in 0..MaxChunks},
          fails \in BOOLEAN : fnArg = Backend(TRUE, chunks, fails)
    /\ fnRet = Draining(0, <<>>)

\* one turn of the loop of lines 146-152
NextChunk ==
    /\ ~fnRet.returned
    /\ fnRet.consumed < Len(fnArg.chunks)
    /\ fnRet' = Draining(fnRet.consumed + 1,
                         AppendChunk(fnRet.responseText, fnArg.chunks[fnRet.consumed + 1]))
    /\ UNCHANGED <<provider, fnArg>>

\* the stream ends: lines 154-161
StreamEnds ==
    /\ ~fnRet.returned
    /\ fnRet.consumed = Len(fnArg.chunks)
    /\ ~fnArg.fails
    /\ fnRet' = [fnRet EXCEPT !.returned = TRUE,
                              !.results = <<[text |-> ExtractCompletion(fnRet.responseText),
                                             detail |-> "AI Completion"]>>]
    /\ UNCHANGED <<provider, fnArg>>

\* the stream throws after the chunks it delivered: lines 162-168
StreamThrows ==
    /\ ~fnRet.returned
    /\ fnRet.consumed = Len(fnArg.chunks)
    /\ fnArg.fails
    /\ fnRet' = [fnRet EXCEPT !.returned = TRUE,
                              !.results = <<[text |-> <<>>,
                                             detail |-> "Error generating completion"]>>]
    /\ UNCHANGED <<provider, fnArg>>

NextStream ==
    \/ NextChunk
    \/ StreamEnds
    \/ StreamThrows

SpecStream == InitStream /\ [][NextStream]_vars

----------------------------------------------------------------------------
(* What the claims speak of *)

\* this step starts an invocation; it is the last of calls'
Starts == Len(calls') = Len(calls) + 1

Started == calls'[Len(calls')]

\* this step is the one in which the invocation i resumes from getCompletion and returns
Resumes(i) ==
    /\ i \in 1..Len(calls)
    /\ calls[i].pc = "getCompletion"
    /\ calls'[i].pc = "done"

Fingerprint(c) == <<c.line, c.character, c.text>>

\* the invocation went to the backend: createMessage was called for it
Issued(c) == c.backend \in {"issued", "returned", "failed"}

----------------------------------------------------------------------------
(* C1 *)

\* C1: of two consecutive invocations with the same fingerprint that both passed the
\* pre-checks, the second issues no backend call and returns exactly the batch the
\* first returned, whatever the first's outcome was.
C1_ReplayReturnsFirstBatch ==
    \A i \in 1..(Len(calls) - 1) :
        ( /\ Fingerprint(calls[i]) = Fingerprint(calls[i + 1])
          /\ calls[i].path # "preCheck"
          /\ calls[i + 1].path # "preCheck"
          /\ calls[i].pc = "done"
          /\ calls[i + 1].pc = "done" )
        => ( /\ ~Issued(calls[i + 1])
             /\ calls[i + 1].result = calls[i].result )

----------------------------------------------------------------------------
(* C2 *)

\* C2: an invocation that only the rate limit could deny, starting less than
\* TRIGGER_DELAY after an earlier such invocation with another fingerprint started,
\* is denied and issues no backend call.
C2_DeniedWithinDelayOfStart ==
    [][ ( /\ Starts
          /\ Eligible(Started.path, document, CallPos(Started))
          /\ lastEligible.input.set
          /\ Fingerprint(lastEligible.input) # Fingerprint(Started)
          /\ now - lastEligible.start < TRIGGER_DELAY )
        => ( /\ Started.path # "allow"
             /\ Started.result = Undefined ) ]_vars

\* C2, amended: an invocation that passes the pre-checks and the two duplicate checks
\* less than TRIGGER_DELAY after lastTriggerTime (the time the latest backend response
\* with results was obtained) is denied by the rate limit: it returns no suggestion
\* at once and goes to no backend.
C2_DeniedWithinDelayOfResponse ==
    [][ ( /\ Starts
          /\ Started.path \notin {"preCheck", "sameInput", "sameLine"}
          /\ now - lastTriggerTime < TRIGGER_DELAY )
        => ( /\ Started.path = "rateLimit"
             /\ Started.pc = "done"
             /\ Started.result = Undefined
             /\ ~Issued(Started) ) ]_vars

\* an invocation with context is denied by the rate limit after an earlier one has
\* got its response
C2_Witness ==
    \E i \in 1..Len(calls) : \E j \in 1..Len(calls) :
        /\ i < j
        /\ calls[i].backend = "returned"
        /\ calls[i].result.defined
        /\ calls[j].path = "rateLimit"
        /\ HasContext(document, CallPos(calls[j]), calls[j].text)
        /\ now - lastTriggerTime < TRIGGER_DELAY

----------------------------------------------------------------------------
(* C3 *)

\* C3: an invocation whose cancellation signal was raised before or during its
\* round trip returns no suggestion and leaves the four fields as they were.
C3_CancelledReturnsNothing ==
    [][ \A i \in 1..Len(calls) :
          (Resumes(i) /\ calls[i].token)
          => ( /\ calls'[i].result = Undefined
               /\ UNCHANGED session ) ]_vars

----------------------------------------------------------------------------
(* C4 *)

\* C4: an invocation that resumes from its round trip after a later invocation at
\* another cursor position has started writes none of lastTriggerTime,
\* lastCompletionText, lastCompetionList.
C4_SupersededWritesNothing ==
    [][ \A i \in 1..Len(calls) :
          ( /\ Resumes(i)
            /\ \E j \in (i + 1)..Len(calls) :
                  /\ calls[j].path # "preCheck"
                  /\ CallPos(calls[j]) # CallPos(calls[i]) )
          => UNCHANGED <<lastTriggerTime, lastCompletionText, lastCompetionList>> ]_vars

----------------------------------------------------------------------------
(* C5 *)

\* C5: lastCompetionList holds a batch with items only if the most recently completed
\* backend call returned a completion with non-empty text; a failed call and a response
\* without the tags leave no batch.
C5_BatchOnlyFromNonEmptyCompletion ==
    (lastCompetionList.defined /\ Len(lastCompetionList.items) > 0)
    => ( /\ lastBackend.completed
         /\ ~lastBackend.failed
         /\ \E k \in 1..Len(lastBackend.results) : lastBackend.results[k].text # <<>> )

----------------------------------------------------------------------------
(* C6 *)

\* C6: an invocation whose backend call failed, on invocation or while the stream
\* was drained, returns no suggestion.
C6_FailureReturnsNoSuggestion ==
    \A i \in 1..Len(calls) :
        (calls[i].pc = "done" /\ calls[i].backend \in {"raised", "failed"})
        => calls[i].result = Undefined

----------------------------------------------------------------------------
(* C7 *)

\* C7: getCompletion raises nothing to its caller; on an error of the backend it
\* returns one result with empty text and the error detail.
C7_GetCompletionNeverRaises ==
    /\ \A i \in 1..Len(calls) : calls[i].backend # "raised"
    /\ lastBackend.failed
       => lastBackend.results = <<[text |-> <<>>, detail |-> "Error generating completion"]>>

----------------------------------------------------------------------------
(* C8 *)

\* C8: when lastCompletionText is set, whatever its text, and the trimmed current line
\* equals it trimmed, an invocation that passes the pre-checks is denied: it goes to
\* no backend and returns the cached batch.
C8_DuplicateLineDenied ==
    [][ ( /\ Starts
          /\ Started.path # "preCheck"
          /\ lastCompletionText.set
          /\ Trim(lineAt(document, Started.line)) = Trim(lastCompletionText.text) )
        => ( /\ Started.path \in {"sameInput", "sameLine"}
             /\ Started.result = lastCompetionList ) ]_vars

----------------------------------------------------------------------------
(* C9 *)

\* C9: lastTriggerTime changes only in the step in which an allowed invocation resumes
\* with a non-empty result sequence from its backend call, and then to the time of
\* that step; the gate, every deny path and the zero-results path leave it as it is.
C9_TriggerTimeOnlyAfterResponse ==
    [][ lastTriggerTime' # lastTriggerTime
        => ( /\ \E i \in 1..Len(calls) :
                   /\ Resumes(i)
                   /\ calls[i].path = "allow"
                   /\ calls'[i].result.defined
             /\ lastBackend'.completed
             /\ Len(lastBackend'.results) > 0
             /\ lastTriggerTime' = now ) ]_vars

\* lastTriggerTime has been written after a response, a later invocation was denied by
\* the rate limit and left it
C9_Witness ==
    \E i \in 1..Len(calls) : \E j \in 1..Len(calls) :
        /\ i < j
        /\ calls[i].backend = "returned"
        /\ calls[i].result.defined
        /\ calls[j].path = "rateLimit"
        /\ lastTriggerTime >= TRIGGER_DELAY

----------------------------------------------------------------------------
(* C10 *)

\* C10: when the backend call of an allowed invocation yields no results, the
\* invocation returns no suggestion and lastCompletionText and lastCompetionList stay
\* as they are.
C10_EmptyResultsLeaveCache ==
    [][ \A i \in 1..Len(calls) :
          (Resumes(i) /\ lastBackend'.completed /\ lastBackend'.results = <<>>)
          => ( /\ calls'[i].result = Undefined
               /\ UNCHANGED <<lastCompletionText, lastCompetionList>> ) ]_vars

\* an invocation has returned no suggestion on an empty result sequence, and the
\* batch cached before it is still the cached one
C10_Witness ==
    \E i \in 1..Len(calls) :
        /\ calls[i].backend = "returned"
        /\ calls[i].result = Undefined
        /\ lastBackend.results = <<>>
        /\ lastCompetionList.defined
        /\ lastCompletionText.set

----------------------------------------------------------------------------
\* C11: lastInput is set to the current fingerprint only after the duplicate-fingerprint
\* check and the duplicate-line check have both passed: an invocation that the
\* duplicate-line check denies leaves lastInput as it was.
C11_DuplicateLineLeavesLastInput ==
    [][ (Starts /\ Started.path = "sameLine") => lastInput' = lastInput ]_vars

----------------------------------------------------------------------------
\* the host's input makes the invocation return at lines 24-38
HostDenies(host) == host.cancelled \/ host.selections > 1 \/ host.stale

\* C12: an invocation that starts with the cancellation signal raised, or with more
\* than one selection, or with a selected suggestion that does not start with the
\* typed text, returns "no suggestion" whatever the cache holds, has returned before
\* any backend call, and changes none of lastTriggerTime, lastInput,
\* lastCompletionText, lastCompetionList.
C12_PreCheckDenyTouchesNothing ==
    [][ (Starts /\ HostDenies(lastHost')) =>
            /\ Started.result = Undefined
            /\ Started.pc = "done"
            /\ Started.backend = "none"
            /\ session' = session ]_vars

\* an invocation the host's input denies has returned nothing while a batch was cached
C12_Witness ==
    /\ Len(calls) > 1
    /\ HostDenies(lastHost)
    /\ calls[Len(calls)].path = "preCheck"
    /\ calls[Len(calls)].result = Undefined
    /\ lastCompetionList.defined
    /\ lastInput.set

----------------------------------------------------------------------------
\* the invocations suspended on the round trip to the backend
OnRoundTrip == {i \in 1..Len(calls) : calls[i].pc = "getCompletion"}

\* C15: at most one backend completion request is in flight at any time, whatever
\* the host's invocations, those that start while an earlier one is suspended on its
\* round trip included.
C15_OneRequestInFlight == Cardinality(OnRoundTrip) <= 1

----------------------------------------------------------------------------
\* C16: every batch that an invocation at cursor position p returns consists of items
\* whose range is the empty range at p, be the batch fresh from the backend or taken
\* from the cache by the duplicate-input or the duplicate-line path.
C16_ReturnedRangesAtCursor ==
    \A i \in 1..Len(calls) :
        (calls[i].pc = "done" /\ calls[i].result.defined) =>
            \A k \in 1..Len(calls[i].result.items) :
                /\ calls[i].result.items[k].range.start = CallPos(calls[i])
                /\ calls[i].result.items[k].range.end = CallPos(calls[i])

----------------------------------------------------------------------------
\* C18: no retry. An invocation issues a backend call only if its gate allowed it
\* and it has issued none before; an invocation that has returned, denied or after
\* its backend call failed, does nothing further.
C18_NoRetry ==
    [][ \A i \in 1..Len(calls) :
            /\ (calls'[i].backend = "issued" /\ calls[i].backend # "issued") =>
                    (calls[i].backend = "none" /\ calls[i].path = "allow")
            /\ calls[i].backend # "none" => calls'[i].backend # "none"
            /\ calls[i].pc = "done" => calls'[i] = calls[i] ]_vars

\* one invocation's backend call has failed and it has returned; another was denied
\* by the gate
C18_Witness ==
    /\ \E i \in 1..Len(calls) : calls[i].pc = "done" /\ calls[i].backend = "failed"
    /\ \E j \in 1..Len(calls) : calls[j].pc = "done" /\ calls[j].path = "rateLimit"

----------------------------------------------------------------------------
\* s has a character that is not white space
NonBlank(s) == \E i \in 1..Len(s) : ~IsSpace(s[i])

\* the part of the cursor's line before the cursor
Typed == SubSeq(document[fnArg.line + 1], 1, fnArg.character)

\* the lines, at most ContextLines of them, just above the cursor's line
Above == {k \in 0..(fnArg.line - 1) : fnArg.line - k <= ContextLines}

\* C13: past the rate limit, shouldTriggerCompletion allows exactly when the line
\* prefix has a character that is not white space or one of the up-to-3 preceding
\* lines has one; otherwise it denies, inside a comment or a string or not, and so
\* it denies at line 0, character 0.
C13_AllowIffContext ==
    (fnRet.fn = "shouldTriggerCompletion" /\ now - lastTriggerTime >= TRIGGER_DELAY) =>
        /\ fnRet.value = (NonBlank(Typed) \/ \E k \in Above : NonBlank(document[k + 1]))
        /\ (fnArg.line = 0 /\ fnArg.character = 0) => fnRet.value = FALSE

\* denied past the rate limit, with blank lines above, inside a comment opened
\* further up than the lines that count
C13_Witness ==
    /\ fnRet.fn = "shouldTriggerCompletion"
    /\ now - lastTriggerTime >= TRIGGER_DELAY
    /\ fnArg.line > ContextLines
    /\ isInComment(document, ArgPos)
    /\ fnRet.value = FALSE

----------------------------------------------------------------------------
\* the first line of the context of the cursor
FirstContextLine == IF fnArg.line - ContextLines > 0 THEN fnArg.line - ContextLines ELSE 0

\* C19: the context starts at column 0 of line max(0, line - 3) and ends at the
\* cursor: at most 3 whole preceding lines, then the cursor's line up to the cursor;
\* on line 0 only the part of line 0 before the cursor; no line below 0 is read.
C19_ContextWindow ==
    fnRet.fn = "getContextRange" =>
        /\ fnRet.range.start.line >= 0
        /\ fnRet.range.start = Pos(FirstContextLine, 0)
        /\ fnRet.range.end = ArgPos
        /\ fnRet.text = JoinLines(document, FirstContextLine, fnArg.line - 1) \o Typed
        /\ Cardinality({i \in 1..Len(fnRet.text) : fnRet.text[i] = "\n"}) <= ContextLines
        /\ fnArg.line = 0 => fnRet.text = Typed

\* the context of a cursor further down than 3 lines, past column 0
C19_Witness ==
    /\ fnRet.fn = "getContextRange"
    /\ fnArg.line > ContextLines
    /\ fnArg.character > 0
    /\ fnRet.range.start.line = fnArg.line - ContextLines
    /\ Len(fnRet.text) > fnArg.character

----------------------------------------------------------------------------
\* C20: for the context text of a cursor at character c, getCompletion's split gives
\* the whole context text as prefix and the empty suffix, so that {{FILL_HERE}}
\* stands right after the context in the query block.
C20_HoleAtEndOfContext ==
    fnRet.fn = "getCompletion" =>
        /\ fnRet.prefix = contextText(document, ArgPos)
        /\ fnRet.suffix = <<>>
        /\ fnRet.query = <<"<QUERY>", "\n">> \o contextText(document, ArgPos)
                             \o <<"{{FILL_HERE}}", "\n", "</QUERY>">>

\* the split of a context of several lines, the cursor past column 0
C20_Witness ==
    /\ fnRet.fn = "getCompletion"
    /\ fnArg.line > 0
    /\ fnArg.character > 0
    /\ \E i \in 1..Len(fnRet.prefix) : fnRet.prefix[i] = "\n"
    /\ fnRet.suffix = <<>>

----------------------------------------------------------------------------
\* where the first opening tag starts, and where the first closing tag after it starts
FirstOpen == IndexOf(fnArg.text, OpenTag, 0)
FirstCloseAfter == IndexOf(fnArg.text, CloseTag, FirstOpen + Len(OpenTag))

\* C14: the extracted completion is what stands strictly between the first opening
\* tag <COMPLETION> and the first closing tag </COMPLETION> after it; with no such
\* pair it is the empty string, and a result is returned all the same.
C14_BetweenFirstTags ==
    fnRet.fn = "match" =>
        /\ Len(fnRet.results) = 1
        /\ fnRet.results[1].detail = "AI Completion"
        /\ fnRet.results[1].text =
              IF FirstOpen >= 0 /\ FirstCloseAfter >= 0
              THEN Substring(fnArg.text, FirstOpen + Len(OpenTag), FirstCloseAfter)
              ELSE <<>>

\* text extracted from a response with a second closing tag after the first
C14_Witness ==
    /\ fnRet.fn = "match"
    /\ fnRet.results[1].text # <<>>
    /\ FirstOpen >= 0
    /\ IndexOf(fnArg.text, CloseTag, FirstCloseAfter + 1) > FirstCloseAfter

----------------------------------------------------------------------------
RECURSIVE TextOf(_)
\* the texts of the chunks that carry text, one after the other in the order of
\* delivery
TextOf(chunks) ==
    IF chunks = <<>> THEN <<>>
    ELSE LET n == Len(chunks)
         IN  TextOf(SubSeq(chunks, 1, n - 1))
                \o (IF chunks[n].type = "text" THEN chunks[n].text ELSE <<>>)

\* C17: the accumulated response is the concatenation, in delivery order, of the
\* text of exactly the chunks that carry text; a result is returned only once the
\* stream has ended, and what it extracts from is the text of the whole stream.
C17_DrainedBeforeExtraction ==
    fnRet.fn = "stream" =>
        /\ fnRet.responseText = TextOf(SubSeq(fnArg.chunks, 1, fnRet.consumed))
        /\ ~fnRet.returned => fnRet.results = <<>>
        /\ fnRet.returned =>
              /\ fnRet.consumed = Len(fnArg.chunks)
              /\ fnRet.results = getCompletion(fnArg).results
              /\ ~fnArg.fails =>
                    fnRet.results[1].text = ExtractCompletion(TextOf(fnArg.chunks))

\* a completion extracted from a stream of several text chunks and a chunk without
\* text
C17_Witness ==
    /\ fnRet.fn = "stream"
    /\ fnRet.returned
    /\ ~fnArg.fails
    /\ fnRet.results[1].text # <<>>
    /\ \E i \in 1..Len(fnArg.chunks) : fnArg.chunks[i].type # "text"
    /\ Cardinality({i \in 1..Len(fnArg.chunks) : fnArg.chunks[i].type = "text"}) > 1

----------------------------------------------------------------------------
\* C24: the earlier variant's shouldTriggerCompletion does not depend on
\* lastTriggerTime: it allows exactly when the line prefix or one of the up-to-3
\* preceding lines has a character that is not white space; and it decides as the
\* current shouldTriggerCompletion does whenever at least TRIGGER_DELAY has elapsed
\* since lastTriggerTime.
C24_EarlierVariantIgnoresRateLimit ==
    fnRet.fn = "shouldTriggerCompletionEarlier" =>
        /\ fnRet.value = (NonBlank(Typed) \/ \E k \in Above : NonBlank(document[k + 1]))
        /\ now - lastTriggerTime >= TRIGGER_DELAY =>
              fnRet.value = shouldTriggerCompletion(document, ArgPos, Typed,
                                                    lastTriggerTime, now)

\* within the delay the earlier variant allows on a blank prefix with context above,
\* where the current one denies
C24_Witness ==
    /\ fnRet.fn = "shouldTriggerCompletionEarlier"
    /\ now - lastTriggerTime < TRIGGER_DELAY
    /\ ~NonBlank(Typed)
    /\ fnRet.value = TRUE
    /\ ~shouldTriggerCompletion(document, ArgPos, Typed, lastTriggerTime, now)

----------------------------------------------------------------------------
\* C23: in every state, whatever the interleaving of the invocations,
\* lastCompetionList is set exactly when lastCompletionText is set, and
\* lastCompletionText is the insert text of the last item of lastCompetionList.
C23_CacheFieldsAgree ==
    /\ lastCompetionList.defined <=> lastCompletionText.set
    /\ lastCompetionList.defined =>
          /\ Len(lastCompetionList.items) > 0
          /\ lastCompletionText.text =
                lastCompetionList.items[Len(lastCompetionList.items)].insertText

\* two invocations have come back from the backend, the cache holding a batch of
\* several items
C23_Witness ==
    /\ Len(calls) > 1
    /\ \A i \in 1..Len(calls) : calls[i].pc = "done" /\ calls[i].backend = "returned"
    /\ lastCompetionList.defined
    /\ Len(lastCompetionList.items) > 1
    /\ lastCompletionText.set

----------------------------------------------------------------------------
\* the latest invocation before this step
Previous == calls[Len(calls)]

\* C22: an invocation that follows directly on one denied by the rate limit or by
\* the no-context deny, with the same fingerprint, issues no backend call, however
\* much time has passed; unless the host's input stops it at the pre-checks, it
\* leaves by the duplicate-input path with the cached list.
C22_DeniedInputIsRemembered ==
    [][ (/\ Starts
         /\ Len(calls) > 0
         /\ Previous.path \in {"rateLimit", "noContext"}
         /\ Fingerprint(Previous) = Fingerprint(Started)) =>
            /\ Started.pc = "done"
            /\ Started.backend = "none"
            /\ ~HostDenies(lastHost') =>
                  /\ Started.path = "sameInput"
                  /\ Started.result = lastCompetionList ]_vars

\* an invocation denied by the rate limit, the same input again, and the delay over
C22_Witness ==
    /\ Len(calls) > 1
    /\ calls[Len(calls) - 1].path = "rateLimit"
    /\ calls[Len(calls)].path = "sameInput"
    /\ Fingerprint(calls[Len(calls) - 1]) = Fingerprint(calls[Len(calls)])
    /\ now - lastTriggerTime >= TRIGGER_DELAY
    /\ lastInput = currentInput(document, CallPos(calls[Len(calls)]))

\* the state the provider is in after a first round trip
WarmState ==
    /\ lastTriggerTime = TRIGGER_DELAY
    /\ lastInput = currentInput(document, WarmPos)
    /\ lastCompletionText = [set |-> TRUE, text |-> <<"a", " ">>]
    /\ lastCompetionList = ItemList(WarmResults, WarmPos)
    /\ lastBackend = [completed |-> TRUE, failed |-> FALSE, results |-> WarmResults]
    /\ now = TRIGGER_DELAY

----------------------------------------------------------------------------
\* C21: every invocation of provideInlineCompletionItems returns in the end, a batch
\* or "no suggestion", given that what it awaits resolves: the stream of an allowed
\* request ends or throws.  The gate and the writes of the fields take no step of
\* their own to wait on.
C21_EveryInvocationReturns ==
    \A i \in 1..MaxCalls :
        (Len(calls) >= i /\ calls[i].pc # "done") ~> (Len(calls) >= i /\ calls[i].pc = "done")

\* every invocation has returned: one after a stream that ended, one after a stream
\* that threw
C21_Witness ==
    /\ Len(calls) = MaxCalls
    /\ \A i \in 1..Len(calls) : calls[i].pc = "done"
    /\ \E i \in 1..Len(calls) : calls[i].backend = "returned"
    /\ \E j \in 1..Len(calls) : calls[j].backend = "failed"

====
